---------------------------- MODULE Spec2Model ----------------------------
(***************************************************************************)
(* FreshnessPolicy (dagster/_core/definitions/freshness_policy.py):        *)
(* construction and validation, the pickle round trip, the loop of         *)
(* constraints_for_time_window and the loop of minutes_late.               *)
(*                                                                         *)
(* Time.  An instant is an integer count of tenths of a minute (6 s)       *)
(* since the epoch, which is midnight UTC of day 0.  maximum_lag_minutes   *)
(* is a whole number of minutes L, so maximum_lag_delta is 10 * L units    *)
(* and the sampling step of the branch without a schedule,                 *)
(* (L / 10.0) + 0.1 minutes, is L + 1 units.  A number of minutes that     *)
(* minutes_late returns is kept in the same unit (Minutes(30) is 30.0).    *)
(*                                                                         *)
(* Optional values.  Python's None is the string "None" for the two        *)
(* optional strings of a policy, and the empty tuple <<>> for an optional  *)
(* instant or number, whose present value v is <<v>>.                      *)
(***************************************************************************)
EXTENDS Integers, Sequences, FiniteSets

VARIABLES
    pc,               \* where the caller is: "new", "ready", or inside a method
    new_args,         \* the arguments of the last constructor call, <<>> before
    policy,           \* the FreshnessPolicy built last (NoPolicy before)
    error,            \* what the last call of the constructor raised
    rebuilt,          \* the policy pickle rebuilt from __reduce__ (NoPolicy before)
    window_start,     \* constraints_for_time_window: argument
    window_end,       \* constraints_for_time_window: argument
    upstream_keys,    \* constraints_for_time_window: argument
    constraints,      \* constraints_for_time_window: the local set
    ticks_pos,        \* constraints_for_time_window: offset kept by constraint_ticks
    evaluation_tick,  \* local of both methods
    evaluation_time,  \* minutes_late: argument
    used_data_times,  \* minutes_late: the mapping's values, in iteration order
    idx,              \* minutes_late: position of the for loop
    minutes_late,     \* minutes_late: the local accumulator
    result            \* minutes_late: the value returned

vars == <<pc, new_args, policy, error, rebuilt, window_start, window_end, upstream_keys,
          constraints, ticks_pos, evaluation_tick, evaluation_time,
          used_data_times, idx, minutes_late, result>>

-----------------------------------------------------------------------------
(* Bounds and input sets *)

\* the longest used_data_times mapping
MaxUpstreams == 2

\* maximum_lag_minutes values, in minutes
Lags == {-2, -1, 0, 1, 60, 1440}

\* window_start and window_end
WindowInstants == {0, 7, 1010, 6000}

\* evaluation_time
EvalInstants == {1203, 34800}

\* how long before evaluation_time an upstream's data time lies
UsedOffsets == {-5, 0, 300, 900, 15600}

\* the argument maximum_lag_minutes: a number, or something that is no number
LagInputs == {[numeric |-> TRUE, v |-> l] : l \in Lags}
                 \cup {[numeric |-> FALSE, v |-> 0]}

None == "None"

CronInputs == {None, "* * * * *", "0 9 * * *", "not-a-cron"}

TimezoneInputs == {None, "UTC", "Asia/Tokyo", "Not/AZone"}

KeySets == {{}, {"a", "b"}}

NoPolicy == [maximum_lag_minutes |-> 0, cron_schedule |-> "-",
             cron_schedule_timezone |-> "-"]

Minutes(m) == 10 * m

Max(a, b) == IF a >= b THEN a ELSE b

-----------------------------------------------------------------------------
(* The collaborators: cron validation, timezones, the tick sources *)

is_valid_cron_schedule(c) == c \in {"* * * * *", "0 9 * * *"}

TimezoneLoads(tz) == tz \in {"UTC", "Asia/Tokyo"}

\* the offset of local time from UTC, in units (Asia/Tokyo is UTC+9, no DST)
UtcOffset(tz) == IF tz = "Asia/Tokyo" THEN Minutes(540) ELSE 0

\* the distance between two ticks of a schedule
CronPeriod(c) == IF c = "* * * * *" THEN Minutes(1) ELSE Minutes(1440)

\* a tick of the schedule, as an instant: 09:00 local time for "0 9 * * *"
CronPhase(c, tz) == IF c = "* * * * *" THEN 0 ELSE Minutes(540) - UtcOffset(tz)

\* cron_string_iterator: its first tick, the first tick >= start
cron_string_iterator(start, c, tz) ==
    start + ((CronPhase(c, tz) - start) % CronPeriod(c))

\* reverse_cron_string_iterator: its first tick, the last tick <= end
reverse_cron_string_iterator(end, c, tz) ==
    end - ((end - CronPhase(c, tz)) % CronPeriod(c))

-----------------------------------------------------------------------------
(* FreshnessPolicy.__new__ *)

DefinitionError == "DagsterInvalidDefinitionError"

\* what dagster._check raises: check.param_invariant, check.numeric_param
ParameterCheckError == "ParameterCheckError"

Raise(e) == [ok |-> FALSE, error |-> e, value |-> NoPolicy]

\* a constructor that no longer rejects a timezone given without a schedule
NewWithoutTimezoneCheck(lag, cron, tz) ==
    IF cron # None /\ ~is_valid_cron_schedule(cron) THEN Raise(DefinitionError)
    ELSE IF tz # None /\ ~TimezoneLoads(tz) THEN Raise(DefinitionError)
    ELSE IF ~lag.numeric THEN Raise(ParameterCheckError)
    ELSE [ok |-> TRUE, error |-> "none",
          value |-> [maximum_lag_minutes |-> lag.v, cron_schedule |-> cron,
                     cron_schedule_timezone |-> tz]]

New(lag, cron, tz) ==
    IF cron # None /\ ~is_valid_cron_schedule(cron) THEN Raise(DefinitionError)
    ELSE IF tz # None /\ cron = None THEN Raise(ParameterCheckError)
    ELSE IF tz # None /\ ~TimezoneLoads(tz) THEN Raise(DefinitionError)
    ELSE IF ~lag.numeric THEN Raise(ParameterCheckError)
    ELSE [ok |-> TRUE, error |-> "none",
          value |-> [maximum_lag_minutes |-> lag.v, cron_schedule |-> cron,
                     cron_schedule_timezone |-> tz]]

\* __reduce__: the arguments pickle keeps
Reduce(p) == <<p.maximum_lag_minutes, p.cron_schedule>>

\* _create: the policy pickle rebuilds from them
Create(args) == New([numeric |-> TRUE, v |-> args[1]], args[2], None)

maximum_lag_delta(p) == Minutes(p.maximum_lag_minutes)

\* `if self.cron_schedule:`
HasCron(p) == p.cron_schedule # None /\ p.cron_schedule # ""

-----------------------------------------------------------------------------
Init ==
    /\ pc = "new"
    /\ new_args = <<>>
    /\ policy = NoPolicy
    /\ error = "none"
    /\ rebuilt = NoPolicy
    /\ window_start = 0
    /\ window_end = 0
    /\ upstream_keys = {}
    /\ constraints = {}
    /\ ticks_pos = 0
    /\ evaluation_tick = <<>>
    /\ evaluation_time = 0
    /\ used_data_times = <<>>
    /\ idx = 1
    /\ minutes_late = 0
    /\ result = <<>>

opVars == <<window_start, window_end, upstream_keys, constraints, ticks_pos,
            evaluation_tick, evaluation_time, used_data_times, idx,
            minutes_late, result>>

Construct(lag, cron, tz) ==
    /\ pc = "new"
    /\ new_args' = <<[maximum_lag_minutes |-> lag, cron_schedule |-> cron,
                      cron_schedule_timezone |-> tz]>>
    /\ LET r == New(lag, cron, tz) IN
        /\ policy' = r.value
        /\ error' = r.error
        /\ pc' = IF r.ok THEN "ready" ELSE "new"
    /\ UNCHANGED <<rebuilt, opVars>>

-----------------------------------------------------------------------------
(* FreshnessPolicy.constraints_for_time_window *)

\* the cap of `if len(constraints) > 100: break`
MaxConstraints == 100

\* a sampling step without the 0.1 minute added
SamplingStepWithoutEpsilon(p) == p.maximum_lag_minutes

\* the amount given to period.range, (maximum_lag_minutes / 10.0) + 0.1
\* minutes, in units
SamplingStep(p) == p.maximum_lag_minutes + 1

\* pendulum's Period.range: the value it yields when its running offset from
\* the period's start is i, or <<>> when it is exhausted.  It goes on while
\* the value is <= the period's end; an inverted period (start after end)
\* counts down while the value is >= the end.  After a yield the offset grows
\* by the amount.
PeriodRange(start, end, i) ==
    IF start > end
    THEN IF start - i >= end THEN <<start - i>> ELSE <<>>
    ELSE IF start + i <= end THEN <<start + i>> ELSE <<>>

\* next(constraint_ticks, None) on the iterator made for the policy: i is the
\* range's running offset, cur the tick yielded last (<<>> before the first)
NextConstraintTick(p, start, end, i, cur) ==
    IF HasCron(p)
    THEN IF cur = <<>>
         THEN <<cron_string_iterator(start, p.cron_schedule,
                                     p.cron_schedule_timezone)>>
         ELSE <<cur[1] + CronPeriod(p.cron_schedule)>>
    ELSE PeriodRange(start, end, i)

\* the iterator's running offset after that call
NextOffset(p, i, yielded) ==
    IF HasCron(p) \/ yielded = <<>> THEN i ELSE i + SamplingStep(p)

\* a loop test that lets a tick at window_end through
WhileConditionInclusive(tick, end) == tick # <<>> /\ tick[1] <= end

\* `while evaluation_tick is not None and evaluation_tick < window_end`
WhileCondition(tick, end) == tick # <<>> /\ tick[1] < end

\* the FreshnessConstraint of one tick
MakeConstraint(p, keys, tick) ==
    [asset_keys |-> keys,
     required_data_time |-> tick - maximum_lag_delta(p),
     required_by_time |-> tick]

\* `if len(constraints) > 100`
CapReached(cs) == Cardinality(cs) > MaxConstraints

CftwCall(ws, we, keys) ==
    /\ pc = "ready"
    /\ window_start' = ws
    /\ window_end' = we
    /\ upstream_keys' = keys
    /\ constraints' = {}
    /\ evaluation_tick' = NextConstraintTick(policy, ws, we, 0, <<>>)
    /\ ticks_pos' = NextOffset(policy, 0, evaluation_tick')
    /\ pc' = "cftw_while"
    /\ UNCHANGED <<new_args, policy, error, rebuilt, evaluation_time, used_data_times,
                   idx, minutes_late, result>>

CftwWhile ==
    /\ pc = "cftw_while"
    /\ pc' = IF WhileCondition(evaluation_tick, window_end)
             THEN "cftw_body" ELSE "cftw_return"
    /\ UNCHANGED <<new_args, policy, error, rebuilt, opVars>>

CftwBody ==
    /\ pc = "cftw_body"
    /\ constraints' = constraints \cup
          {MakeConstraint(policy, upstream_keys, evaluation_tick[1])}
    /\ evaluation_tick' = NextConstraintTick(policy, window_start, window_end,
                                             ticks_pos, evaluation_tick)
    /\ ticks_pos' = NextOffset(policy, ticks_pos, evaluation_tick')
    /\ pc' = IF CapReached(constraints') THEN "cftw_return" ELSE "cftw_while"
    /\ UNCHANGED <<new_args, policy, error, rebuilt, window_start, window_end,
                   upstream_keys, evaluation_time, used_data_times, idx,
                   minutes_late, result>>

-----------------------------------------------------------------------------
(* FreshnessPolicy.minutes_late *)

\* an optional instant: None, or a data time some offset before time t
OptionalInstants(t) == {<<>>} \cup {<<t - o>> : o \in UsedOffsets}

\* the values of a used_data_times mapping, in the order they are visited
UsedDataTimes(t) ==
    UNION {[1..n -> OptionalInstants(t)] : n \in 0..MaxUpstreams}

\* an anchor that is evaluation_time whatever the schedule
EvaluationTickNow(p, t) == t

\* the anchor: the most recent tick of the schedule, or evaluation_time
EvaluationTick(p, t) ==
    IF HasCron(p)
    THEN reverse_cron_string_iterator(t, p.cron_schedule,
                                      p.cron_schedule_timezone)
    ELSE t

\* `required_time = evaluation_tick - self.maximum_lag_delta`
RequiredTime(p, tick) == tick - maximum_lag_delta(p)

\* a loop body that skips a missing data time
ForBodySkipsMissing(acc, used_data_time, required_time) ==
    [returns |-> FALSE,
     minutes_late |-> IF used_data_time # <<>> /\ used_data_time[1] < required_time
                      THEN Max(acc, required_time - used_data_time[1])
                      ELSE acc]

\* a loop body that keeps the last shortfall, not the greatest
ForBodyLastShortfall(acc, used_data_time, required_time) ==
    IF used_data_time = <<>>
    THEN [returns |-> TRUE, minutes_late |-> acc]
    ELSE [returns |-> FALSE,
          minutes_late |-> IF used_data_time[1] < required_time
                           THEN required_time - used_data_time[1]
                           ELSE acc]

\* one pass of `for used_data_time in used_data_times.values()`: whether it
\* returns None, and the accumulator after it.  total_seconds() / 60 of a
\* difference of instants is that difference, in units.
ForBody(acc, used_data_time, required_time) ==
    IF used_data_time = <<>>
    THEN [returns |-> TRUE, minutes_late |-> acc]
    ELSE [returns |-> FALSE,
          minutes_late |-> IF used_data_time[1] < required_time
                           THEN Max(acc, required_time - used_data_time[1])
                           ELSE acc]

MlCall(t, used) ==
    /\ pc = "ready"
    /\ evaluation_time' = t
    /\ used_data_times' = used
    /\ evaluation_tick' = <<EvaluationTick(policy, t)>>
    /\ minutes_late' = 0
    /\ idx' = 1
    /\ result' = <<>>
    /\ pc' = "ml_for"
    /\ UNCHANGED <<new_args, policy, error, rebuilt, window_start, window_end,
                   upstream_keys, constraints, ticks_pos>>

MlFor ==
    /\ pc = "ml_for"
    /\ IF idx > Len(used_data_times)
       THEN /\ result' = <<minutes_late>>
            /\ pc' = "ml_return"
            /\ UNCHANGED <<idx, minutes_late>>
       ELSE LET b == ForBody(minutes_late, used_data_times[idx],
                             RequiredTime(policy, evaluation_tick[1])) IN
            IF b.returns
            THEN /\ result' = <<>>
                 /\ pc' = "ml_return"
                 /\ UNCHANGED <<idx, minutes_late>>
            ELSE /\ minutes_late' = b.minutes_late
                 /\ idx' = idx + 1
                 /\ UNCHANGED <<pc, result>>
    /\ UNCHANGED <<new_args, policy, error, rebuilt, window_start, window_end,
                   upstream_keys, constraints, ticks_pos, evaluation_tick,
                   evaluation_time, used_data_times>>

-----------------------------------------------------------------------------
(* pickle: __reduce__, then _create *)

Pickle ==
    /\ pc = "ready"
    /\ rebuilt' = Create(Reduce(policy)).value
    /\ UNCHANGED <<pc, new_args, policy, error, opVars>>

-----------------------------------------------------------------------------
\* the method returns; the caller may call again
Return ==
    /\ pc \in {"cftw_return", "ml_return"}
    /\ pc' = "ready"
    /\ window_start' = 0
    /\ window_end' = 0
    /\ upstream_keys' = {}
    /\ constraints' = {}
    /\ ticks_pos' = 0
    /\ evaluation_tick' = <<>>
    /\ evaluation_time' = 0
    /\ used_data_times' = <<>>
    /\ idx' = 1
    /\ minutes_late' = 0
    /\ result' = <<>>
    /\ UNCHANGED <<new_args, policy, error, rebuilt>>

-----------------------------------------------------------------------------
Next ==
    \/ \E lag \in LagInputs, cron \in CronInputs, tz \in TimezoneInputs :
           Construct(lag, cron, tz)
    \/ \E ws \in WindowInstants, we \in WindowInstants, keys \in KeySets :
           CftwCall(ws, we, keys)
    \/ CftwWhile
    \/ CftwBody
    \/ \E t \in EvalInstants : \E used \in UsedDataTimes(t) : MlCall(t, used)
    \/ MlFor
    \/ Pickle
    \/ Return

Spec == Init /\ [][Next]_vars

\* the loop's thread keeps running: a step that can be taken is taken
FairSpec == Spec /\ WF_vars(Next)

-----------------------------------------------------------------------------
(* Properties *)

\* the call of constraints_for_time_window has made its set (it is returning)
CftwReturns == pc = "cftw_return"

\* the call of minutes_late has its value (it is returning)
MlReturns == pc = "ml_return"

RequiredByTimes == {c.required_by_time : c \in constraints}

IsCronTick(p, t) ==
    (t - CronPhase(p.cron_schedule, p.cron_schedule_timezone))
        % CronPeriod(p.cron_schedule) = 0

\* the greatest of the shortfalls of the data times against `required`, or 0
WorstShortfall(required) ==
    LET S == {required - used_data_times[i][1] :
                  i \in 1..Len(used_data_times)} \cup {0}
    IN  CHOOSE m \in S : \A x \in S : m >= x

NoneMissing == \A i \in 1..Len(used_data_times) : used_data_times[i] # <<>>

\* C1: the set constraints_for_time_window builds never holds more than 100
\* constraints, with or without a schedule.
C1_AtMostHundred == Cardinality(constraints) <= 100

\* C2: with a cron schedule, every constraint of the set has required_data_time
\* = required_by_time - maximum_lag, and its required_by_time is a tick of the
\* schedule with window_start <= required_by_time < window_end.
C2_CronConstraints ==
    (pc \in {"cftw_while", "cftw_body", "cftw_return"} /\ HasCron(policy)) =>
        \A c \in constraints :
            /\ c.required_data_time
                   = c.required_by_time - Minutes(policy.maximum_lag_minutes)
            /\ window_start <= c.required_by_time
            /\ c.required_by_time < window_end
            /\ IsCronTick(policy, c.required_by_time)
            /\ c.asset_keys = upstream_keys

C2_Witness ==
    /\ CftwReturns
    /\ HasCron(policy)
    /\ policy.cron_schedule = "* * * * *"
    /\ window_start = 7
    /\ window_end = 1010
    /\ Cardinality(constraints) = 100
    /\ 10 \in RequiredByTimes
    /\ 1000 \in RequiredByTimes

\* the constructor was last called with a timezone and no schedule
TimezoneWithoutCron ==
    /\ new_args # <<>>
    /\ new_args[1].cron_schedule = None
    /\ new_args[1].cron_schedule_timezone # None

C4_UnknownIffMissing ==
    MlReturns => ((result = <<>>) <=> ~NoneMissing)

C4_Witness ==
    /\ MlReturns
    /\ result = <<>>
    /\ Len(used_data_times) = 2
    /\ used_data_times[1] # <<>>
    /\ used_data_times[1][1] < evaluation_tick[1] - Minutes(policy.maximum_lag_minutes)
    /\ used_data_times[2] = <<>>

\* C5: when no value is None, minutes_late returns the greatest shortfall
\* required_time - used_data_time over the upstreams, floored at 0, where
\* required_time = anchor - maximum_lag; 0 for an empty mapping; and 30 for a
\* lag of 60 minutes, no schedule, and one upstream 90 minutes old.
C5_WorstShortfall ==
    (MlReturns /\ NoneMissing) =>
        /\ result = <<WorstShortfall(evaluation_tick[1]
                                       - Minutes(policy.maximum_lag_minutes))>>
        /\ result[1] >= 0
        /\ used_data_times = <<>> => result = <<0>>
        /\ (/\ policy.maximum_lag_minutes = 60
            /\ policy.cron_schedule = None
            /\ used_data_times = << <<evaluation_time - Minutes(90)>> >>)
               => result = <<Minutes(30)>>

C5_Witness ==
    /\ MlReturns
    /\ policy.maximum_lag_minutes = 60
    /\ policy.cron_schedule = None
    /\ used_data_times = << <<evaluation_time - Minutes(90)>> >>
    /\ result = <<Minutes(30)>>

\* C6: with a cron schedule the anchor of minutes_late is the most recent tick
\* at or before evaluation_time, and the lateness is measured from it, not
\* from evaluation_time: 60 for a daily 9AM tick, a lag of 1440 minutes,
\* 10AM of day 2 and an upstream of 8AM of day 1.
C6_CronAnchor ==
    (MlReturns /\ HasCron(policy)) =>
        /\ IsCronTick(policy, evaluation_tick[1])
        /\ evaluation_tick[1] <= evaluation_time
        /\ evaluation_time - evaluation_tick[1] < CronPeriod(policy.cron_schedule)
        /\ NoneMissing =>
               result = <<WorstShortfall(evaluation_tick[1]
                                           - Minutes(policy.maximum_lag_minutes))>>
        /\ (/\ policy.maximum_lag_minutes = 1440
            /\ policy.cron_schedule = "0 9 * * *"
            /\ policy.cron_schedule_timezone \in {None, "UTC"}
            /\ evaluation_time = Minutes(2 * 1440 + 600)
            /\ used_data_times = << <<Minutes(1440 + 480)>> >>)
               => result = <<Minutes(60)>>

C6_Witness ==
    /\ MlReturns
    /\ policy.maximum_lag_minutes = 1440
    /\ policy.cron_schedule = "0 9 * * *"
    /\ policy.cron_schedule_timezone = None
    /\ evaluation_time = Minutes(2 * 1440 + 600)
    /\ evaluation_tick = <<Minutes(2 * 1440 + 540)>>
    /\ used_data_times = << <<Minutes(1440 + 480)>> >>
    /\ result = <<Minutes(60)>>

\* C7: every call of constraints_for_time_window on a policy the constructor
\* accepted returns: from the loop's test it reaches the return.
C7_Terminates == (pc = "cftw_while") ~> (pc = "cftw_return")

\* C8: every policy the constructor returns has maximum_lag_minutes > 0, and
\* every constraint made from it has required_data_time < required_by_time.
C8_PositiveLag ==
    /\ pc # "new" => policy.maximum_lag_minutes > 0
    /\ \A c \in constraints : c.required_data_time < c.required_by_time

\* C9: without a schedule and with window_start < window_end, the deadlines
\* are window_start + k * (maximum_lag_minutes / 10 + 0.1 minutes) for
\* k = 0, 1, 2, ... while that instant is < window_end, up to the cap: the
\* first is window_start, window_end is none, and a half-open interval as
\* long as maximum_lag holds at most ten.
C9_SamplingGrid ==
    (CftwReturns /\ ~HasCron(policy) /\ window_start < window_end) =>
        LET step == policy.maximum_lag_minutes + 1
            n    == Cardinality(constraints)
        IN  /\ RequiredByTimes = {window_start + k * step : k \in 0..(n - 1)}
            /\ \A d \in RequiredByTimes : d < window_end
            /\ n >= 100 \/ window_start + n * step >= window_end
            /\ window_start \in RequiredByTimes
            /\ window_end \notin RequiredByTimes
            /\ \A a \in RequiredByTimes :
                   Cardinality({d \in RequiredByTimes :
                       a <= d /\ d < a + Minutes(policy.maximum_lag_minutes)})
                       <= 10

C9_Witness ==
    /\ CftwReturns
    /\ ~HasCron(policy)
    /\ policy.maximum_lag_minutes = 60
    /\ window_start = 7
    /\ window_end = 1010
    /\ Cardinality(constraints) = 17
    /\ 7 + 16 * 61 \in RequiredByTimes

\* C10: the policy pickle rebuilds with _create from __reduce__ equals the
\* original in its three fields.
C10_RoundTrip == rebuilt # NoPolicy => rebuilt = policy

=============================================================================
